---- MODULE Spec2Model ----
(***************************************************************************)
(* Write path of the vector database: the sharded MessageBuffer            *)
(* (src/cpp/storage/buffer/msg-buf.h) and the Latest-By-ID directory       *)
(* (src/cpp/storage/latest-by-id.h).                                       *)
(*                                                                         *)
(* Three specifications share the variables:                               *)
(*   SpecDir  the directory's API called directly, one call per action;    *)
(*   Spec     one client driving buffer + directory, one call per action;  *)
(*   SpecConc writer threads running MessageBuffer::append statement by    *)
(*            statement, under the scheduler's weak fairness.              *)
(*                                                                         *)
(* size_t counters are kept as signed representatives of their value       *)
(* modulo 2^64 (TLC's integers are 32 bits wide): a negative value v       *)
(* stands for 2^64 + v, i.e. a counter that wrapped below zero.            *)
(***************************************************************************)
EXTENDS Integers, Sequences, FiniteSets, TLC

(* ------------------------------ bounds ------------------------------- *)

\* Number of writes that are assigned an epoch in one run.
MaxEpoch == 3
\* Epochs a direct directory call may carry (SpecDir).
MaxDirEpoch == 2
\* Number of directory writes in one SpecDir run (caps global_version_).
MaxVersion == 3
\* config_.max_bytes, scaled down: two 21-byte records fit exactly.
MaxBytes == 42
\* sizeof(BTreeMessage), scaled down.
SizeofBTreeMessage == 8
\* Collection dimension (entry.vector.size()), scaled down.
Dim == 1
\* Largest max_scan / max_batch argument tried.
MaxScan == 3

(* --------------------------- program constants ------------------------ *)

\* config_.shard_count, scaled down from 16 to 2 shards.
shard_count == 2
\* sizeof(float) and sizeof(TagId)
SizeofFloat == 4
SizeofTagId == 4
\* config_.dedupe_enabled
dedupe_enabled == TRUE

(* ------------------------------ inputs -------------------------------- *)

\* Vector ids written through the buffer, and one more id ("dd") whose
\* 64-bit hash collides with that of "a", used on the directory.
Ids == {"a", "b", "c"}
DirIds == {"a", "b", "dd"}
AllIds == Ids \cup DirIds

\* util::hash_id, abstracted to a table: "a" and "dd" collide; "a" and "c"
\* have different hashes that fall into the same shard (0), "b" into shard 1.
hash_id(id) ==
    CASE id = "a" -> 0
      [] id = "b" -> 1
      [] id = "c" -> 2
      [] id = "dd" -> 0

Hashes == {hash_id(id) : id \in AllIds}

\* OperationType; the code only ever tests an operation against DELETE, so
\* INSERT behaves as UPSERT does and is not tried separately.
Ops == {"UPSERT", "DELETE"}
Segs == {"s1", "s2"}
\* Values an uninitialised uint32_t local_id may hold.
LocalIds == {0, 1}

\* The VectorEntry a client submits for an id at a given time: tenant,
\* namespace and tags are fixed per id, updated_at is the write's timestamp.
VectorEntry(id, ts) ==
    [id |-> id,
     id_hash |-> hash_id(id),
     vector |-> [i \in 1..Dim |-> 0],
     tenant |-> IF id = "b" THEN "t2" ELSE "t1",
     namespace_id |-> "n1",
     tags |-> IF id = "c" THEN << >> ELSE <<1>>,
     updated_at |-> ts]

\* The clock: the timestamp of the write that was assigned epoch e.
\* Timestamps are monotone in the epoch and may tie.
Clock(e) == (e + 1) \div 2

\* struct BTreeMessage {op, entry, epoch, timestamp}
BTreeMessage(op, id, e) ==
    [op |-> op, entry |-> VectorEntry(id, Clock(e)), epoch |-> e,
     timestamp |-> Clock(e)]

(* ------------------------------ helpers ------------------------------- *)

Max(S) == CHOOSE x \in S : \A y \in S : y <= x

Range(s) == {s[i] : i \in DOMAIN s}

\* f with key k set to v (std::unordered_map::operator[] assignment)
MapPut(f, k, v) == [x \in (DOMAIN f) \cup {k} |-> IF x = k THEN v ELSE f[x]]

\* f without key k (std::unordered_map::erase)
MapErase(f, k) == [x \in (DOMAIN f) \ {k} |-> f[x]]

EmptyMap == [x \in {} |-> 0]

VARIABLES
    \* LatestByIdMap
    id_map_,           \* id_hash -> Entry [id, id_hash, location, version]
    id_to_hash_,       \* id -> id_hash
    buffer_count_,
    segment_count_,
    tombstone_count_,
    global_version_,
    \* MessageBuffer
    shards_,           \* shard index -> [messages, bytes, count, latest_map]
    total_bytes_,
    total_messages_,
    dedupe_count_,
    next_addr,         \* next heap address handed out by make_unique
    \* environment
    next_epoch,        \* the WAL's next epoch
    flush,             \* the flush in progress: its stage and its batch
    ret,               \* the last call: its name, arguments and result
    garbage,           \* what an uninitialised uint32_t of this run holds
    \* writer threads (SpecConc)
    pc, local

dirVars == <<id_map_, id_to_hash_, buffer_count_, segment_count_,
             tombstone_count_, global_version_>>
bufVars == <<shards_, total_bytes_, total_messages_, dedupe_count_, next_addr>>
thrVars == <<pc, local>>
vars == <<dirVars, bufVars, next_epoch, flush, ret, garbage, thrVars>>

(* ======================= LatestByIdMap ================================ *)

\* The directory as one value, so that its methods are operators on it.
Dir == [id_map_ |-> id_map_, id_to_hash_ |-> id_to_hash_,
        buffer_count_ |-> buffer_count_, segment_count_ |-> segment_count_,
        tombstone_count_ |-> tombstone_count_,
        global_version_ |-> global_version_]

SetDir(d) ==
    /\ id_map_' = d.id_map_
    /\ id_to_hash_' = d.id_to_hash_
    /\ buffer_count_' = d.buffer_count_
    /\ segment_count_' = d.segment_count_
    /\ tombstone_count_' = d.tombstone_count_
    /\ global_version_' = d.global_version_

\* struct VectorLocation
VectorLocation(type, segment_id, local_id, timestamp, epoch, tombstone) ==
    [type |-> type, segment_id |-> segment_id, local_id |-> local_id,
     timestamp |-> timestamp, epoch |-> epoch, tombstone |-> tombstone]

\* LatestByIdMap::updateEntry: the location is overwritten, whatever its epoch.
updateEntry(d, entry, location) ==
    [entry EXCEPT !.location = location, !.version = d.global_version_]

\* upsert that also stores the caller's id in the entry it finds: on a hash
\* collision the entry changes hands.
upsertTakesId(d, id, id_hash, location) ==
    LET found == id_hash \in DOMAIN d.id_map_
        old == d.id_map_[id_hash]
        b1 == IF found /\ old.location.type = "BUFFER"
              THEN d.buffer_count_ - 1 ELSE d.buffer_count_
        s1 == IF found /\ old.location.type = "SEGMENT"
              THEN d.segment_count_ - 1 ELSE d.segment_count_
        t1 == IF found /\ old.location.tombstone
              THEN d.tombstone_count_ - 1 ELSE d.tombstone_count_
        newEntry == [id |-> id, id_hash |-> id_hash, location |-> location,
                     version |-> d.global_version_]
    IN  [id_map_ |-> IF found
                     THEN [d.id_map_ EXCEPT
                             ![id_hash] = [updateEntry(d, old, location)
                                              EXCEPT !.id = id]]
                     ELSE MapPut(d.id_map_, id_hash, newEntry),
         id_to_hash_ |-> IF found THEN d.id_to_hash_
                         ELSE MapPut(d.id_to_hash_, id, id_hash),
         buffer_count_ |-> IF location.type = "BUFFER" THEN b1 + 1 ELSE b1,
         segment_count_ |-> IF location.type = "SEGMENT" THEN s1 + 1 ELSE s1,
         tombstone_count_ |-> IF location.tombstone THEN t1 + 1 ELSE t1,
         global_version_ |-> d.global_version_ + 1]

\* LatestByIdMap::upsert
upsert(d, id, id_hash, location) ==
    LET found == id_hash \in DOMAIN d.id_map_
        old == d.id_map_[id_hash]
        \* counters for the location that is replaced
        b1 == IF found /\ old.location.type = "BUFFER"
              THEN d.buffer_count_ - 1 ELSE d.buffer_count_
        s1 == IF found /\ old.location.type = "SEGMENT"
              THEN d.segment_count_ - 1 ELSE d.segment_count_
        t1 == IF found /\ old.location.tombstone
              THEN d.tombstone_count_ - 1 ELSE d.tombstone_count_
        newEntry == [id |-> id, id_hash |-> id_hash, location |-> location,
                     version |-> d.global_version_]
    IN  [id_map_ |-> IF found
                     THEN [d.id_map_ EXCEPT
                             ![id_hash] = updateEntry(d, old, location)]
                     ELSE MapPut(d.id_map_, id_hash, newEntry),
         id_to_hash_ |-> IF found THEN d.id_to_hash_
                         ELSE MapPut(d.id_to_hash_, id, id_hash),
         \* counters for the new location
         buffer_count_ |-> IF location.type = "BUFFER" THEN b1 + 1 ELSE b1,
         segment_count_ |-> IF location.type = "SEGMENT" THEN s1 + 1 ELSE s1,
         tombstone_count_ |-> IF location.tombstone THEN t1 + 1 ELSE t1,
         global_version_ |-> d.global_version_ + 1]

\* markDeleted writing a DELETED location whose tombstone flag was left at
\* its default (false).
markDeletedNoTombstone(d, id, id_hash, timestamp, epoch, g) ==
    upsert(d, id, id_hash,
           VectorLocation("DELETED", "", g, timestamp, epoch, FALSE))

\* LatestByIdMap::markDeleted; local_id is left uninitialised by the code
\* and holds whatever value g the stack held.
markDeleted(d, id, id_hash, timestamp, epoch, g) ==
    upsert(d, id, id_hash,
           VectorLocation("DELETED", "", g, timestamp, epoch, TRUE))

\* LatestByIdMap::getLatestByHash: <<location>> or << >> (std::nullopt)
getLatestByHash(d, id_hash) ==
    IF id_hash \in DOMAIN d.id_map_
    THEN <<d.id_map_[id_hash].location>> ELSE << >>

\* LatestByIdMap::getLatest
getLatest(d, id) ==
    IF id \notin DOMAIN d.id_to_hash_ THEN << >>
    ELSE getLatestByHash(d, d.id_to_hash_[id])

\* LatestByIdMap::exists
exists(d, id) ==
    LET location == getLatest(d, id)
    IN  location # << >> /\ ~location[1].tombstone

\* LatestByIdMap::existsByHash
existsByHash(d, id_hash) ==
    LET location == getLatestByHash(d, id_hash)
    IN  location # << >> /\ ~location[1].tombstone

\* moveToSegment's loop body without the assignment of the location type:
\* segment id, epoch and counters change, the entry stays BUFFER.
moveOneKeepsType(d, id, segment_id, epoch) ==
    IF id \notin DOMAIN d.id_to_hash_ THEN d
    ELSE LET h == d.id_to_hash_[id] IN
         IF h \notin DOMAIN d.id_map_ THEN d
         ELSE LET entry == d.id_map_[h]
                  wasBuffer == entry.location.type = "BUFFER"
              IN  [d EXCEPT
                     !.buffer_count_ = IF wasBuffer THEN @ - 1 ELSE @,
                     !.segment_count_ = IF wasBuffer THEN @ + 1 ELSE @,
                     !.id_map_[h].location.segment_id = segment_id,
                     !.id_map_[h].location.epoch = epoch,
                     !.id_map_[h].version = d.global_version_,
                     !.global_version_ = @ + 1]

\* One iteration of moveToSegment's loop, for one id.
moveOne(d, id, segment_id, epoch) ==
    IF id \notin DOMAIN d.id_to_hash_ THEN d
    ELSE LET h == d.id_to_hash_[id] IN
         IF h \notin DOMAIN d.id_map_ THEN d
         ELSE LET entry == d.id_map_[h]
                  wasBuffer == entry.location.type = "BUFFER"
              IN  [d EXCEPT
                     !.buffer_count_ = IF wasBuffer THEN @ - 1 ELSE @,
                     !.segment_count_ = IF wasBuffer THEN @ + 1 ELSE @,
                     !.id_map_[h].location.type = "SEGMENT",
                     !.id_map_[h].location.segment_id = segment_id,
                     !.id_map_[h].location.epoch = epoch,
                     !.id_map_[h].version = d.global_version_,
                     !.global_version_ = @ + 1]

\* LatestByIdMap::moveToSegment; ids is a sequence (std::vector<VectorId>)
RECURSIVE moveToSegment(_, _, _, _)
moveToSegment(d, ids, segment_id, epoch) ==
    IF ids = << >> THEN d
    ELSE moveToSegment(moveOne(d, Head(ids), segment_id, epoch),
                       Tail(ids), segment_id, epoch)

\* removeSegmentEntries erasing the entries of the primary map only: the
\* ids of the removed entries stay in the secondary index.
removeSegmentEntriesKeepsIndex(d, segment_id) ==
    LET gone == {h \in DOMAIN d.id_map_ :
                    /\ d.id_map_[h].location.type = "SEGMENT"
                    /\ d.id_map_[h].location.segment_id = segment_id}
        goneTomb == {h \in gone : d.id_map_[h].location.tombstone}
    IN  [d EXCEPT
           !.id_map_ = [h \in (DOMAIN @) \ gone |-> @[h]],
           !.segment_count_ = @ - Cardinality(gone),
           !.tombstone_count_ = @ - Cardinality(goneTomb)]

\* LatestByIdMap::removeSegmentEntries
removeSegmentEntries(d, segment_id) ==
    LET gone == {h \in DOMAIN d.id_map_ :
                    /\ d.id_map_[h].location.type = "SEGMENT"
                    /\ d.id_map_[h].location.segment_id = segment_id}
        goneIds == {d.id_map_[h].id : h \in gone}
        goneTomb == {h \in gone : d.id_map_[h].location.tombstone}
    IN  [d EXCEPT
           !.id_to_hash_ = [i \in (DOMAIN @) \ goneIds |-> @[i]],
           !.id_map_ = [h \in (DOMAIN @) \ gone |-> @[h]],
           !.segment_count_ = @ - Cardinality(gone),
           !.tombstone_count_ = @ - Cardinality(goneTomb)]

\* LatestByIdMap::clear (global_version_ is not reset)
lbiClear(d) ==
    [d EXCEPT !.id_map_ = EmptyMap, !.id_to_hash_ = EmptyMap,
              !.buffer_count_ = 0, !.segment_count_ = 0,
              !.tombstone_count_ = 0]

\* LatestByIdMap::getStats
lbiGetStats(d) ==
    [total_entries |-> Cardinality(DOMAIN d.id_map_),
     buffer_entries |-> d.buffer_count_,
     segment_entries |-> d.segment_count_,
     tombstone_entries |-> d.tombstone_count_]

(* ======================= MessageBuffer ================================ *)

\* size_t comparison on signed representatives (a negative representative
\* is a value of at least 2^63).
ULt(a, b) == IF (a < 0) = (b < 0) THEN a < b ELSE b < 0
UGt(a, b) == ULt(b, a)

\* MessageBuffer::getShardIndex
getShardIndex(hash) == hash % shard_count

ShardIdx == 0 .. (shard_count - 1)

\* MessageBuffer::estimateSize
estimateSize(msg) ==
    SizeofBTreeMessage
    + Len(msg.entry.vector) * SizeofFloat
    + Len(msg.entry.id)
    + Len(msg.entry.tenant)
    + Len(msg.entry.namespace_id)
    + Len(msg.entry.tags) * SizeofTagId

\* struct Shard, freshly constructed
EmptyShard == [messages |-> << >>, bytes |-> 0, count |-> 0,
               latest_map |-> EmptyMap]

\* The buffer as one value, so that its methods are operators on it.
Buf == [shards_ |-> shards_, total_bytes_ |-> total_bytes_,
        total_messages_ |-> total_messages_, dedupe_count_ |-> dedupe_count_,
        next_addr |-> next_addr]

SetBuf(b) ==
    /\ shards_' = b.shards_
    /\ total_bytes_' = b.total_bytes_
    /\ total_messages_' = b.total_messages_
    /\ dedupe_count_' = b.dedupe_count_
    /\ next_addr' = b.next_addr

\* append, the loop condition at line 123
needsSpace(total_bytes, msg_size) == UGt(total_bytes + msg_size, MaxBytes)

\* MessageBuffer::waitForSpace: wait_for returns its predicate's value, at
\* once when it is true and after the timeout when nobody made it true.
waitForSpace(total_bytes) == ULt(total_bytes, MaxBytes)

\* append, lines 131-151: the part under the shard mutex that touches the
\* shard (dedup bookkeeping, push_back, the shard's counters).
appendToShard(b, hash, msg) ==
    LET i == getShardIndex(hash)
        shard == b.shards_[i]
        msg_size == estimateSize(msg)
        dup == /\ dedupe_enabled
               /\ msg.op # "DELETE"
               /\ hash \in DOMAIN shard.latest_map
        msg_ptr == [addr |-> b.next_addr, msg |-> msg]
    IN  [b EXCEPT
           !.dedupe_count_ = IF dup THEN @ + 1 ELSE @,
           !.next_addr = @ + 1,
           !.shards_[i] =
               [messages |-> Append(shard.messages, msg_ptr),
                bytes |-> shard.bytes + msg_size,
                count |-> shard.count + 1,
                latest_map |-> IF dedupe_enabled
                               THEN MapPut(shard.latest_map, hash, b.next_addr)
                               ELSE shard.latest_map]]

\* append's buffer-wide counters without the message counter: the bytes are
\* added, total_messages_ is not.
appendTotalsBytesOnly(b, msg) ==
    [b EXCEPT !.total_bytes_ = @ + estimateSize(msg)]

\* append, lines 153-154: the buffer-wide counters
appendTotals(b, msg) ==
    [b EXCEPT !.total_bytes_ = @ + estimateSize(msg),
              !.total_messages_ = @ + 1]

\* append, lines 156-165: the location handed to the directory; local_id is
\* left uninitialised and holds g.
appendLocation(msg, g) ==
    VectorLocation("BUFFER", "", g, msg.timestamp, msg.epoch,
                   msg.op = "DELETE")

\* What one caller of append gets when nobody else touches the buffer
\* meanwhile (lines 122-129): the loop either is not entered ("admitted"),
\* or waitForSpace times out ("returned"), or waitForSpace keeps returning
\* true at once while the loop condition stays true ("spinning").
appendWait(total_bytes, msg_size) ==
    IF ~needsSpace(total_bytes, msg_size) THEN "admitted"
    ELSE IF ~waitForSpace(total_bytes) THEN "returned"
    ELSE "spinning"

\* One shard's part of sliceForLeaf without the cap on to_take: the shard
\* contributes as many messages as it queues.
sliceShardTakesAll(shard, result, max_batch) ==
    LET to_take == Len(shard.messages)
    IN  result \o [j \in 1..to_take |-> shard.messages[1].msg]

\* One shard's part of sliceForLeaf (lines 175-184): to_take copies of the
\* shard's front message are pushed; nothing is removed.
sliceShard(shard, result, max_batch) ==
    LET room == max_batch - Len(result)
        to_take == IF room < Len(shard.messages) THEN room
                   ELSE Len(shard.messages)
    IN  result \o [j \in 1..to_take |-> shard.messages[1].msg]

\* MessageBuffer::sliceForLeaf, the loop over shards from shard i on;
\* leaf_id is not read by the code.
RECURSIVE sliceFrom(_, _, _, _, _)
sliceFrom(b, i, result, leaf_id, max_batch) ==
    IF i < shard_count /\ Len(result) < max_batch
    THEN sliceFrom(b, i + 1, sliceShard(b.shards_[i], result, max_batch),
                   leaf_id, max_batch)
    ELSE result

sliceForLeaf(b, leaf_id, max_batch) ==
    sliceFrom(b, 0, << >>, leaf_id, max_batch)

\* evict's loop body without the update of the buffer-wide counters: the
\* shard gives the message up, total_bytes_ and total_messages_ keep it.
evictOneKeepsTotals(b, msg) ==
    LET i == getShardIndex(msg.entry.id_hash)
        shard == b.shards_[i]
        msg_size == estimateSize(shard.messages[1].msg)
    IN  IF shard.messages = << >> THEN b
        ELSE [b EXCEPT
                !.shards_[i] =
                    [messages |-> Tail(shard.messages),
                     bytes |-> shard.bytes - msg_size,
                     count |-> shard.count - 1,
                     latest_map |->
                        IF dedupe_enabled
                        THEN MapErase(shard.latest_map, msg.entry.id_hash)
                        ELSE shard.latest_map]]

\* One iteration of evict's loop (lines 193-214) for one flushed message:
\* the front of the message's shard is popped, whichever message it is.
evictOne(b, msg) ==
    LET i == getShardIndex(msg.entry.id_hash)
        shard == b.shards_[i]
        msg_size == estimateSize(shard.messages[1].msg)
    IN  IF shard.messages = << >> THEN b
        ELSE [b EXCEPT
                !.shards_[i] =
                    [messages |-> Tail(shard.messages),
                     bytes |-> shard.bytes - msg_size,
                     count |-> shard.count - 1,
                     latest_map |->
                        IF dedupe_enabled
                        THEN MapErase(shard.latest_map, msg.entry.id_hash)
                        ELSE shard.latest_map],
                !.total_bytes_ = @ - msg_size,
                !.total_messages_ = @ - 1]

\* MessageBuffer::evict
RECURSIVE evict(_, _)
evict(b, flushed) ==
    IF flushed = << >> THEN b
    ELSE evict(evictOne(b, Head(flushed)), Tail(flushed))

\* scanForQuery's filters (lines 239-255): TRUE when the message passes.
HasAnyTag(entryTags, tags) ==
    \E k \in DOMAIN tags : \E l \in DOMAIN entryTags : entryTags[l] = tags[k]

\* The filters without the tenant comparison: a scan then returns the
\* entries of every tenant.
passesFiltersSkipsTenant(msg, tenant, ns, tags) ==
    /\ msg.op # "DELETE"
    /\ ~(ns # "" /\ msg.entry.namespace_id # ns)
    /\ (tags # << >> => HasAnyTag(msg.entry.tags, tags))

passesFilters(msg, tenant, ns, tags) ==
    /\ msg.op # "DELETE"
    /\ ~(tenant # "" /\ msg.entry.tenant # tenant)
    /\ ~(ns # "" /\ msg.entry.namespace_id # ns)
    /\ (tags # << >> => HasAnyTag(msg.entry.tags, tags))

\* scanForQuery's inner loop over one shard's messages from position j on;
\* st = [scanned, results].
RECURSIVE scanShard(_, _, _, _, _, _, _)
scanShard(messages, j, st, tenant, ns, tags, max_scan) ==
    IF j > Len(messages) \/ st.scanned >= max_scan THEN st
    ELSE LET msg == messages[j].msg
             st1 == [scanned |-> st.scanned + 1,
                     results |-> IF passesFilters(msg, tenant, ns, tags)
                                 THEN Append(st.results, msg.entry)
                                 ELSE st.results]
         IN  scanShard(messages, j + 1, st1, tenant, ns, tags, max_scan)

RECURSIVE scanFrom(_, _, _, _, _, _, _)
scanFrom(b, i, st, tenant, ns, tags, max_scan) ==
    IF i >= shard_count THEN st
    ELSE scanFrom(b, i + 1,
                  scanShard(b.shards_[i].messages, 1, st, tenant, ns, tags,
                            max_scan),
                  tenant, ns, tags, max_scan)

\* MessageBuffer::scanForQuery; the query vector is not read by the code.
scanForQuery(b, tenant, ns, tags, max_scan) ==
    scanFrom(b, 0, [scanned |-> 0, results |-> << >>], tenant, ns, tags,
             max_scan).results

\* MessageBuffer::getStats
getStats(b) ==
    [message_count |-> b.total_messages_,
     bytes_used |-> b.total_bytes_,
     dedupe_count |-> b.dedupe_count_,
     shard_sizes |-> [i \in ShardIdx |-> b.shards_[i].count]]

\* MessageBuffer::clear
clear(b) ==
    [b EXCEPT !.shards_ = [i \in ShardIdx |-> EmptyShard],
              !.total_bytes_ = 0, !.total_messages_ = 0,
              !.dedupe_count_ = 0]

\* What append hands to its caller: the method is void and throws nothing,
\* on the path that gives up (line 127) as on the path that admits (line 166).
appendValue(path) == "void"

\* append with the message stored before the wait for space instead of
\* after it: a call that gives up has then already touched the shard.
appendStoresBeforeWait(b, d, hash, msg, g) ==
    LET path == appendWait(b.total_bytes_, estimateSize(msg))
    IN  IF path = "admitted"
        THEN [b |-> appendTotals(appendToShard(b, hash, msg), msg),
              d |-> upsert(d, msg.entry.id, hash, appendLocation(msg, g)),
              path |-> path, value |-> appendValue(path)]
        ELSE [b |-> appendToShard(b, hash, msg), d |-> d,
              path |-> path, value |-> appendValue(path)]

\* MessageBuffer::append as one call by a caller that nobody interferes with:
\* the buffer and the directory after it, and what the caller got.
append(b, d, hash, msg, g) ==
    LET path == appendWait(b.total_bytes_, estimateSize(msg))
    IN  IF path = "admitted"
        THEN [b |-> appendTotals(appendToShard(b, hash, msg), msg),
              d |-> upsert(d, msg.entry.id, hash, appendLocation(msg, g)),
              path |-> path, value |-> appendValue(path)]
        ELSE [b |-> b, d |-> d, path |-> path, value |-> appendValue(path)]

(* ======================= state machine ================================ *)

Threads == {1, 2}

NoLocal == [msg |-> << >>]

Init ==
    /\ id_map_ = EmptyMap
    /\ id_to_hash_ = EmptyMap
    /\ buffer_count_ = 0
    /\ segment_count_ = 0
    /\ tombstone_count_ = 0
    /\ global_version_ = 0
    /\ shards_ = [i \in ShardIdx |-> EmptyShard]
    /\ total_bytes_ = 0
    /\ total_messages_ = 0
    /\ dedupe_count_ = 0
    /\ next_addr = 1
    /\ next_epoch = 1
    /\ flush = [stage |-> "idle", batch |-> << >>]
    /\ ret = [op |-> "init", args |-> << >>, result |-> << >>, path |-> "done"]
    /\ garbage \in LocalIds
    /\ pc = [t \in Threads |-> "idle"]
    /\ local = [t \in Threads |-> NoLocal]

\* A call's record: what the caller passed and received, and the path the
\* call took through the code ("done" unless the method has several exits).
CallVia(op, args, result, path) ==
    [op |-> op, args |-> args, result |-> result, path |-> path]

Call(op, args, result) == CallVia(op, args, result, "done")

(* ---------------- Spec: one client, one call per action --------------- *)

\* The client is inside an append that never returns.
Stuck == ret.op = "append" /\ ret.path = "spinning"

\* Arguments tried for scanForQuery: the filters of the entries of "a",
\* then each filter switched off in turn, each with a small and a large
\* max_scan.  Arguments tried for sliceForLeaf.
ScanFilters == {<<"t1", "n1", <<1>>>>, <<"", "n1", <<1>>>>,
                <<"t1", "", <<1>>>>, <<"t1", "n1", << >>>>}
ScanLimits == {1, MaxScan}
LeafIds == {0, 1}
\* The segment the flush writes.
FlushSegs == {"s1"}

\* A write: the WAL assigns the next epoch, then MessageBuffer::append runs.
Write(id, op) ==
    /\ ~Stuck
    /\ next_epoch <= MaxEpoch
    /\ LET msg == BTreeMessage(op, id, next_epoch)
           r == append(Buf, Dir, msg.entry.id_hash, msg, garbage)
       IN  /\ SetBuf(r.b)
           /\ SetDir(r.d)
           /\ ret' = CallVia("append", <<msg.entry.id_hash, msg>>, r.value,
                          r.path)
    /\ next_epoch' = next_epoch + 1
    /\ UNCHANGED <<flush, garbage, thrVars>>

\* The flush of section 4.4 (BEpsilonTree::flush is declared only; its
\* steps follow the specification): the ids of a batch and the greatest
\* epoch in it, which the flush passes to moveToSegment.
flushIds(b) == [k \in DOMAIN b |-> b[k].entry.id]
flushEpoch(b) == Max({b[k].epoch : k \in DOMAIN b})

\* The flush takes its batch with sliceForLeaf (again after an abort), ...
SliceForLeaf(leaf_id, max_batch) ==
    /\ ~Stuck
    /\ flush.stage \in {"idle", "sliced"}
    /\ LET result == sliceForLeaf(Buf, leaf_id, max_batch)
       IN  /\ flush' = [stage |-> IF result = << >> THEN "idle" ELSE "sliced",
                        batch |-> result]
           /\ ret' = Call("sliceForLeaf", <<leaf_id, max_batch>>, result)
    /\ UNCHANGED <<dirVars, bufVars, next_epoch, garbage, thrVars>>

\* ... after its segment was committed moves the batch's ids to the segment,
\* with the greatest epoch of the batch, ...
MoveToSegment(segment_id) ==
    /\ ~Stuck
    /\ flush.stage = "sliced"
    /\ LET ids == flushIds(flush.batch)
           epoch == flushEpoch(flush.batch)
       IN  /\ SetDir(moveToSegment(Dir, ids, segment_id, epoch))
           /\ ret' = Call("moveToSegment", <<ids, segment_id, epoch>>, << >>)
    /\ flush' = [flush EXCEPT !.stage = "committed"]
    /\ UNCHANGED <<bufVars, next_epoch, garbage, thrVars>>

\* ... and evicts the batch.
Evict ==
    /\ ~Stuck
    /\ flush.stage = "committed"
    /\ SetBuf(evict(Buf, flush.batch))
    /\ ret' = Call("evict", <<flush.batch>>, << >>)
    /\ flush' = [stage |-> "idle", batch |-> << >>]
    /\ UNCHANGED <<dirVars, next_epoch, garbage, thrVars>>

ScanForQuery(tenant, ns, tags, max_scan) ==
    /\ ~Stuck
    /\ ret' = Call("scanForQuery", <<tenant, ns, tags, max_scan>>,
                   scanForQuery(Buf, tenant, ns, tags, max_scan))
    /\ UNCHANGED <<dirVars, bufVars, next_epoch, flush, garbage, thrVars>>

Clear ==
    /\ ~Stuck
    /\ SetBuf(clear(Buf))
    /\ ret' = Call("clear", << >>, << >>)
    /\ UNCHANGED <<dirVars, next_epoch, flush, garbage, thrVars>>

Next ==
    \/ \E id \in Ids, op \in Ops : Write(id, op)
    \/ \E l \in LeafIds, n \in ScanLimits : SliceForLeaf(l, n)
    \/ \E s \in FlushSegs : MoveToSegment(s)
    \/ Evict
    \/ \E f \in ScanFilters, m \in ScanLimits :
          ScanForQuery(f[1], f[2], f[3], m)
    \/ Clear

Spec == Init /\ [][Next]_vars

(* ------------- SpecDir: the directory's API, one call per action ------- *)

DirEpochs == 1..MaxDirEpoch

\* Locations a caller of upsert passes: a buffered write or tombstone, or a
\* row of a segment.
DirLocations ==
    {VectorLocation("BUFFER", "", 0, Clock(e), e, t) :
        e \in DirEpochs, t \in BOOLEAN}
    \cup {VectorLocation("SEGMENT", s, 0, Clock(e), e, FALSE) :
        e \in DirEpochs, s \in Segs}

\* Id lists a caller of moveToSegment passes: one id, or two different ids.
DirIdLists ==
    {<<x>> : x \in DirIds}
    \cup {p \in {<<x, y>> : x \in DirIds, y \in DirIds} : p[1] # p[2]}

DirBuf == UNCHANGED <<bufVars, next_epoch, flush, garbage, thrVars>>

DirUpsert(id, location) ==
    /\ global_version_ < MaxVersion
    /\ SetDir(upsert(Dir, id, hash_id(id), location))
    /\ ret' = Call("upsert", <<id, hash_id(id), location>>, << >>)
    /\ DirBuf

DirMarkDeleted(id, epoch) ==
    /\ global_version_ < MaxVersion
    /\ SetDir(markDeleted(Dir, id, hash_id(id), Clock(epoch), epoch, garbage))
    /\ ret' = Call("markDeleted", <<id, hash_id(id), Clock(epoch), epoch>>,
                   << >>)
    /\ DirBuf

DirMoveToSegment(ids, segment_id, epoch) ==
    /\ global_version_ < MaxVersion
    /\ SetDir(moveToSegment(Dir, ids, segment_id, epoch))
    /\ ret' = Call("moveToSegment", <<ids, segment_id, epoch>>, << >>)
    /\ DirBuf

DirRemoveSegmentEntries(segment_id) ==
    /\ SetDir(removeSegmentEntries(Dir, segment_id))
    /\ ret' = Call("removeSegmentEntries", <<segment_id>>, << >>)
    /\ DirBuf

DirClear ==
    /\ SetDir(lbiClear(Dir))
    /\ ret' = Call("clear", << >>, << >>)
    /\ DirBuf

\* A write through the buffer: the WAL assigns the next epoch and
\* MessageBuffer::append stores the message and upserts its location.  Only
\* calls that return are made here.
DirAppend(id, op) ==
    /\ global_version_ < MaxVersion
    /\ next_epoch <= MaxDirEpoch
    /\ LET msg == BTreeMessage(op, id, next_epoch)
           r == append(Buf, Dir, msg.entry.id_hash, msg, garbage)
       IN  /\ r.path # "spinning"
           /\ SetBuf(r.b)
           /\ SetDir(r.d)
           /\ ret' = CallVia("append", <<msg.entry.id_hash, msg>>, r.value,
                             r.path)
    /\ next_epoch' = next_epoch + 1
    /\ UNCHANGED <<flush, garbage, thrVars>>

DirGetLatest(id) ==
    /\ ret' = Call("getLatest", <<id>>, getLatest(Dir, id))
    /\ UNCHANGED dirVars
    /\ DirBuf

DirExists(id) ==
    /\ ret' = Call("exists", <<id>>, exists(Dir, id))
    /\ UNCHANGED dirVars
    /\ DirBuf

NextDir ==
    \/ \E id \in DirIds, l \in DirLocations : DirUpsert(id, l)
    \/ \E id \in DirIds, e \in DirEpochs : DirMarkDeleted(id, e)
    \/ \E id \in DirIds, op \in Ops : DirAppend(id, op)
    \/ \E ids \in DirIdLists, s \in Segs, e \in DirEpochs :
          DirMoveToSegment(ids, s, e)
    \/ \E s \in Segs : DirRemoveSegmentEntries(s)
    \/ DirClear
    \/ \E id \in DirIds : DirGetLatest(id)
    \/ \E id \in DirIds : DirExists(id)

SpecDir == Init /\ [][NextDir]_vars

(* ---- SpecConc: writer threads, MessageBuffer::append step by step ----- *)

\* The message thread t is appending, and its shard.
MsgOf(t) == local[t].msg
ShardOf(t) == getShardIndex(MsgOf(t).entry.id_hash)

\* The shard a thread inside evict is at: the shard of the flushed message
\* its loop has reached (lines 194-195).
EvictShardOf(t) == getShardIndex(Head(local[t].batch).entry.id_hash)

\* The shard mutexes of a clear that would declare its lock_guard outside
\* the loop's scope: every shard cleared so far stays locked.
HeldShardsClearKeepsAll(t) ==
    IF pc[t] \in {"totals", "upsert", "dir"} THEN {ShardOf(t)}
    ELSE IF pc[t] = "cl_body" THEN 0 .. local[t].shard
    ELSE IF pc[t] \in {"sl_body", "sc_body"} THEN {local[t].shard}
    ELSE IF pc[t] = "ev_body" THEN {EvictShardOf(t)}
    ELSE {}

\* The shard mutexes thread t holds.  Each method declares its
\* std::lock_guard inside the block that handles one shard: append from line
\* 131 to its end, sliceForLeaf, evict, scanForQuery and clear for one
\* iteration of their loop over shards or messages.
HeldShards(t) ==
    IF pc[t] \in {"totals", "upsert", "dir"} THEN {ShardOf(t)}
    ELSE IF pc[t] \in {"cl_body", "sl_body", "sc_body"} THEN {local[t].shard}
    ELSE IF pc[t] = "ev_body" THEN {EvictShardOf(t)}
    ELSE {}

\* std::mutex of shard i, held by thread t.
HoldsShard(t, i) == i \in HeldShards(t)
ShardFree(i) == \A t \in Threads : ~HoldsShard(t, i)

ConcRest == UNCHANGED <<flush, garbage>>

\* A writer gets its epoch from the WAL and calls append (lines 116-120).
Begin(t, id, op) ==
    /\ pc[t] = "idle"
    /\ next_epoch <= MaxEpoch
    /\ next_epoch' = next_epoch + 1
    /\ local' = [local EXCEPT ![t] = [msg |-> BTreeMessage(op, id, next_epoch)]]
    /\ pc' = [pc EXCEPT ![t] = "check"]
    /\ UNCHANGED <<dirVars, bufVars, ret>>
    /\ ConcRest

\* Line 123: the loop condition, on one load of total_bytes_.
Check(t) ==
    /\ pc[t] = "check"
    /\ pc' = [pc EXCEPT ![t] =
                IF needsSpace(total_bytes_, estimateSize(MsgOf(t)))
                THEN "wait" ELSE "lock"]
    /\ UNCHANGED <<dirVars, bufVars, next_epoch, local, ret>>
    /\ ConcRest

\* Lines 124-128: waitForSpace returns; false makes append give up.
Wait(t) ==
    /\ pc[t] = "wait"
    /\ IF waitForSpace(total_bytes_)
       THEN /\ pc' = [pc EXCEPT ![t] = "check"]
            /\ UNCHANGED <<local, ret>>
       ELSE /\ pc' = [pc EXCEPT ![t] = "idle"]
            /\ ret' = CallVia("append", <<MsgOf(t).entry.id_hash, MsgOf(t)>>,
                              appendValue("returned"), "returned")
            /\ local' = [local EXCEPT ![t] = NoLocal]
    /\ UNCHANGED <<dirVars, bufVars, next_epoch>>
    /\ ConcRest

\* Lines 131-151: the shard mutex is taken and the message stored.
Lock(t) ==
    /\ pc[t] = "lock"
    /\ ShardFree(ShardOf(t))
    /\ SetBuf(appendToShard(Buf, MsgOf(t).entry.id_hash, MsgOf(t)))
    /\ pc' = [pc EXCEPT ![t] = "totals"]
    /\ UNCHANGED <<dirVars, next_epoch, local, ret>>
    /\ ConcRest

\* Lines 153-154: the buffer-wide counters.
Totals(t) ==
    /\ pc[t] = "totals"
    /\ SetBuf(appendTotals(Buf, MsgOf(t)))
    /\ pc' = [pc EXCEPT ![t] = "upsert"]
    /\ UNCHANGED <<dirVars, next_epoch, local, ret>>
    /\ ConcRest

\* Lines 156-166: the directory is updated (under its own lock), the shard
\* mutex released, and append returns.
Upsert(t) ==
    /\ pc[t] = "upsert"
    /\ SetDir(upsert(Dir, MsgOf(t).entry.id, MsgOf(t).entry.id_hash,
                     appendLocation(MsgOf(t), garbage)))
    /\ pc' = [pc EXCEPT ![t] = "idle"]
    /\ ret' = CallVia("append", <<MsgOf(t).entry.id_hash, MsgOf(t)>>,
                      appendValue("admitted"), "admitted")
    /\ local' = [local EXCEPT ![t] = NoLocal]
    /\ UNCHANGED <<bufVars, next_epoch>>
    /\ ConcRest

\* The statements of thread t's append.
Step(t) == Check(t) \/ Wait(t) \/ Lock(t) \/ Totals(t) \/ Upsert(t)

NextConc ==
    \/ \E t \in Threads, id \in Ids, op \in Ops : Begin(t, id, op)
    \/ \E t \in Threads : Check(t)
    \/ \E t \in Threads : Wait(t)
    \/ \E t \in Threads : Lock(t)
    \/ \E t \in Threads : Totals(t)
    \/ \E t \in Threads : Upsert(t)

\* A thread inside append is scheduled again and again; nobody is obliged
\* to start a new write.
SpecConc == Init /\ [][NextConc]_vars /\ \A t \in Threads : WF_vars(Step(t))

(* ---- SpecFlush: the writer threads of SpecConc and one flush ---------- *)

\* No writer is between lines 131 and 166: every shard mutex is free, so a
\* call that locks the shards one after the other runs through.
AllShardsFree == \A i \in ShardIdx : ShardFree(i)

\* Batch sizes the flush asks for.
FlushBatches == {1}

\* The flush's calls, each made while no writer holds a shard mutex.
FlushSlice(max_batch) == AllShardsFree /\ SliceForLeaf(0, max_batch)
FlushMove(segment_id) == AllShardsFree /\ MoveToSegment(segment_id)
FlushEvict == AllShardsFree /\ Evict

NextFlush ==
    \/ \E t \in Threads, id \in Ids, op \in Ops : Begin(t, id, op)
    \/ \E t \in Threads : Check(t)
    \/ \E t \in Threads : Wait(t)
    \/ \E t \in Threads : Lock(t)
    \/ \E t \in Threads : Totals(t)
    \/ \E t \in Threads : Upsert(t)
    \/ \E n \in FlushBatches : FlushSlice(n)
    \/ \E s \in FlushSegs : FlushMove(s)
    \/ FlushEvict

SpecFlush == Init /\ [][NextFlush]_vars

(* ---- SpecTrip: one client making round trips through the buffer ------ *)

\* Number of queue entries of buffer b over all shards.
Queued(b) == LET RECURSIVE Sum(_)
                 Sum(i) == IF i >= shard_count THEN 0
                           ELSE Len(b.shards_[i].messages) + Sum(i + 1)
             IN  Sum(0)

\* Batch sizes tried for the round trip's sliceForLeaf.
TripBatches == {1, MaxScan}

\* The counters of getStats the round trip is about.
tripStats(b) == [message_count |-> getStats(b).message_count,
                 bytes_used |-> getStats(b).bytes_used,
                 shard_sizes |-> getStats(b).shard_sizes]

\* append(m), then B = sliceForLeaf(leaf_id, max_batch), then evict(B), by a
\* caller nobody interferes with.  An append that never returns leaves the
\* caller inside it.
RoundTrip(id, op, leaf_id, max_batch) ==
    /\ ~Stuck
    /\ next_epoch <= MaxEpoch
    /\ LET msg == BTreeMessage(op, id, next_epoch)
           r == append(Buf, Dir, msg.entry.id_hash, msg, garbage)
           B == sliceForLeaf(r.b, leaf_id, max_batch)
           after == evict(r.b, B)
       IN  IF r.path = "spinning"
           THEN /\ SetBuf(r.b)
                /\ SetDir(r.d)
                /\ ret' = CallVia("append", <<msg.entry.id_hash, msg>>,
                                  r.value, r.path)
           ELSE /\ SetBuf(after)
                /\ SetDir(r.d)
                /\ ret' = CallVia("roundTrip", <<msg, leaf_id, max_batch>>,
                                  [queued |-> Queued(Buf),
                                   before |-> tripStats(Buf),
                                   batch |-> B,
                                   after |-> tripStats(after)],
                                  r.path)
    /\ next_epoch' = next_epoch + 1
    /\ UNCHANGED <<flush, garbage, thrVars>>

NextTrip ==
    \/ \E id \in Ids, op \in Ops : Write(id, op)
    \/ \E id \in Ids, op \in Ops, l \in LeafIds, n \in TripBatches :
          RoundTrip(id, op, l, n)
    \/ Clear

SpecTrip == Init /\ [][NextTrip]_vars

(* ============================ properties ============================== *)

\* The messages the shard FIFOs hold.
Buffered == UNION {{shards_[i].messages[k].msg :
                      k \in DOMAIN shards_[i].messages} : i \in ShardIdx}

\* Number of queue entries over all shards.
QueueEntries == LET RECURSIVE Sum(_)
                    Sum(i) == IF i >= shard_count THEN 0
                              ELSE Len(shards_[i].messages) + Sum(i + 1)
                IN  Sum(0)

\* Nothing was evicted or cleared so far: every message ever stored is
\* still queued.
NothingRemoved == QueueEntries = next_addr - 1

\* m is the latest operation the buffer holds for its id_hash.
LatestInBuffer(m) ==
    \A o \in Buffered : o.entry.id_hash = m.entry.id_hash => o.epoch <= m.epoch

\* The append of m has returned (no thread is still inside it).
Returned(m) == \A t \in Threads : pc[t] = "idle" \/ MsgOf(t) # m

(* C1: whatever the order in which concurrent writers reach the directory,
   the location it holds for an id carries at least the epoch of every write
   of that id whose append has returned (the greatest epoch submitted). *)
C1_LatestCarriesGreatestEpoch ==
    \A m \in Buffered :
        Returned(m) =>
            LET l == getLatest(Dir, m.entry.id)
            IN  l # << >> /\ l[1].epoch >= m.epoch

(* C2: an upsert whose location carries a lower epoch than the stored
   location leaves the stored location as it was. *)
C2_LowerEpochUpsertIgnored ==
    [][(/\ ret'.op = "upsert"
        /\ ret'.args[2] \in DOMAIN id_map_
        /\ ret'.args[3].epoch < id_map_[ret'.args[2]].location.epoch)
       => /\ ret'.args[2] \in DOMAIN id_map_'
          /\ id_map_'[ret'.args[2]].location = id_map_[ret'.args[2]].location
      ]_vars

(* C3: moveToSegment leaves every entry exactly as it was unless the entry
   is BUFFER with an epoch no greater than the flush epoch. *)
C3_MoveToSegmentEpochGated ==
    [][ret'.op = "moveToSegment" =>
          \A h \in DOMAIN id_map_ :
              LET old == id_map_[h].location
              IN  ~(old.type = "BUFFER" /\ old.epoch <= ret'.args[3])
                  => /\ h \in DOMAIN id_map_'
                     /\ id_map_'[h].location = old
      ]_vars

(* C4: the buffer's byte counter never exceeds max_bytes, also while
   several threads are inside append. *)
C4_BytesWithinMax == ~UGt(getStats(Buf).bytes_used, MaxBytes)

(* C5: an append that gave up hands its caller something other than what a
   successful append hands its caller (a BufferFull error). *)
C5_BufferFullDistinguishable ==
    (ret.op = "append" /\ ret.path = "returned")
        => ret.result # appendValue("admitted")

(* C6: with only appends running (no evict, no clear), every call of
   append returns. *)
C6_AppendTerminates ==
    \A t \in Threads : (pc[t] # "idle") ~> (pc[t] = "idle")

(* C7: an append that gives up changes neither the buffer (shard FIFOs,
   dedup maps, shard and total counters, dedupe_count) nor the directory. *)
C7_GiveUpLeavesNoMutation ==
    [][(ret'.op = "append" /\ ret'.path = "returned")
       => UNCHANGED <<shards_, total_bytes_, total_messages_, dedupe_count_,
                      dirVars>>
      ]_vars

\* An append gave up on a buffer that holds messages.
C7_Witness ==
    /\ ret.op = "append"
    /\ ret.path = "returned"
    /\ QueueEntries > 0
    /\ DOMAIN id_map_ # {}

\* The live entries of the buffer that a scan with these filters matches.
MatchingLive(tenant, ns, tags) ==
    {m \in Buffered : /\ LatestInBuffer(m)
                      /\ m.op # "DELETE"
                      /\ m.entry.tenant = tenant
                      /\ m.entry.namespace_id = ns
                      /\ HasAnyTag(m.entry.tags, tags)}

(* C8: read-your-writes: before any evict or clear, a scan whose tenant,
   namespace and tags match an admitted non-DELETE message m that is the
   latest operation for its id returns m's entry whenever the matching live
   entries are no more than max_scan. *)
C8_ReadYourWrites ==
    (ret.op = "scanForQuery" /\ NothingRemoved) =>
        LET live == MatchingLive(ret.args[1], ret.args[2], ret.args[3])
        IN  Cardinality(live) <= ret.args[4] =>
                \A m \in live : m.entry \in Range(ret.result)

(* C9: an entry whose id was deleted afterwards (a DELETE with the same
   id_hash and a greater epoch is the latest operation for the id) is not
   returned by a scan whose filters match it. *)
C9_DeletedNotReturned ==
    ret.op = "scanForQuery" =>
        \A x \in Buffered, d \in Buffered :
            (/\ x.op # "DELETE"
             /\ d.op = "DELETE"
             /\ d.entry.id_hash = x.entry.id_hash
             /\ d.epoch > x.epoch
             /\ LatestInBuffer(d)
             /\ x.entry.tenant = ret.args[1]
             /\ x.entry.namespace_id = ret.args[2]
             /\ HasAnyTag(x.entry.tags, ret.args[3]))
            => x.entry \notin Range(ret.result)

(* C10: the batch sliceForLeaf returns holds at most one message per
   id_hash, and that message is the one with the greatest epoch the buffer
   holds for the id_hash. *)
C10_SliceSkipsSuperseded ==
    ret.op = "sliceForLeaf" =>
        /\ \A j \in DOMAIN ret.result, k \in DOMAIN ret.result :
              ret.result[j].entry.id_hash = ret.result[k].entry.id_hash
                  => j = k
        /\ \A k \in DOMAIN ret.result : LatestInBuffer(ret.result[k])

\* The latest non-DELETE message the buffer holds for m's id_hash is m.
LatestUpsert(m) ==
    /\ m.op # "DELETE"
    /\ \A o \in Buffered :
          (o.op # "DELETE" /\ o.entry.id_hash = m.entry.id_hash)
              => o.epoch <= m.epoch

(* C11: a scan returns at most one entry per id_hash, and that entry is the
   one of the most recent (greatest-epoch) non-DELETE message the buffer
   holds for the id_hash. *)
C11_ScanSkipsSuperseded ==
    ret.op = "scanForQuery" =>
        /\ \A j \in DOMAIN ret.result, k \in DOMAIN ret.result :
              ret.result[j].id_hash = ret.result[k].id_hash => j = k
        /\ \A k \in DOMAIN ret.result :
              \E m \in Buffered : LatestUpsert(m) /\ m.entry = ret.result[k]

(* C12 as stated: every entry a scan returns has exactly the scan's tenant
   and namespace and a tag in common with the scan's tags, also when the
   tenant, the namespace or the tag list passed is empty. *)
C12_ResultsMatchExactly ==
    ret.op = "scanForQuery" =>
        \A k \in DOMAIN ret.result :
            /\ ret.result[k].tenant = ret.args[1]
            /\ ret.result[k].namespace_id = ret.args[2]
            /\ HasAnyTag(ret.result[k].tags, ret.args[3])

(* C12 amended: every entry a scan returns is the entry of a queued
   non-DELETE message, has the scan's tenant when a tenant is passed, the
   scan's namespace when a namespace is passed, and a tag in common with the
   scan's tags when tags are passed; an empty argument filters nothing. *)
C12_ResultsPassGivenFilters ==
    ret.op = "scanForQuery" =>
        \A k \in DOMAIN ret.result :
            /\ \E m \in Buffered : m.op # "DELETE" /\ m.entry = ret.result[k]
            /\ ret.args[1] # "" => ret.result[k].tenant = ret.args[1]
            /\ ret.args[2] # "" => ret.result[k].namespace_id = ret.args[2]
            /\ ret.args[3] # << >>
                  => HasAnyTag(ret.result[k].tags, ret.args[3])

\* A scan with a tenant returned entries and left out a queued non-DELETE
\* message of another tenant that it had the budget to visit.
C12_Witness ==
    /\ ret.op = "scanForQuery"
    /\ ret.args[1] # ""
    /\ ret.result # << >>
    /\ QueueEntries <= ret.args[4]
    /\ \E m \in Buffered : /\ m.op # "DELETE"
                           /\ m.entry.tenant # ret.args[1]
                           /\ m.entry \notin Range(ret.result)

(* C13: when evict(B) returns, the buffer holds no message of B and no
   queue entry that a message of B superseded (same id_hash, lower epoch). *)
C13_EvictRemovesBatch ==
    [][(flush.stage = "committed" /\ ret'.op = "evict")
       => \A k \in DOMAIN ret'.args[1] :
            LET m == ret'.args[1][k]
            IN  /\ m \notin Buffered'
                /\ \A o \in Buffered' :
                      ~(o.entry.id_hash = m.entry.id_hash /\ o.epoch < m.epoch)
      ]_vars

(* C14 as stated: from any buffer state, append(m), B = sliceForLeaf(leaf,
   max_batch), evict(B) leaves message_count, bytes_used and every per-shard
   size of getStats as they were before the append. *)
C14_RoundTripRestoresStats ==
    ret.op = "roundTrip" => ret.result.after = ret.result.before

(* C14 amended: from an empty buffer (no message queued), when the append
   is admitted and max_batch is at least 1, append(m), B = sliceForLeaf(leaf,
   max_batch), evict(B) leaves message_count, bytes_used and every per-shard
   size of getStats as they were before the append. *)
C14_RoundTripFromEmpty ==
    (/\ ret.op = "roundTrip"
     /\ ret.path = "admitted"
     /\ ret.result.queued = 0
     /\ ret.args[3] >= 1)
        => ret.result.after = ret.result.before

\* A round trip from an empty buffer whose append was admitted and whose
\* batch held the message.
C14_Witness ==
    /\ ret.op = "roundTrip"
    /\ ret.path = "admitted"
    /\ ret.result.queued = 0
    /\ ret.args[3] >= 1
    /\ ret.result.batch = <<ret.args[1]>>
    /\ next_addr > 2

(* C15: sliceForLeaf(leaf_id, max_batch) returns at most max_batch messages
   and removes nothing: the shard FIFOs, the dedup maps and all byte and
   message counters are after the call what they were before it. *)
C15_SliceBoundedAndReadOnly ==
    [][ret'.op = "sliceForLeaf"
       => /\ Len(ret'.result) <= ret'.args[2]
          /\ UNCHANGED <<shards_, total_bytes_, total_messages_,
                         dedupe_count_>>
      ]_vars

\* A slice was cut short by max_batch: the buffer queues more messages than
\* the batch holds.
C15_Witness ==
    /\ ret.op = "sliceForLeaf"
    /\ Len(ret.result) = ret.args[2]
    /\ QueueEntries > ret.args[2]

(* C16: sliceForLeaf returns only messages of the id_hash range its leaf
   owns, so on one buffer state the batches of two distinct leaves share no
   message. *)
C16_SliceDisjointAcrossLeaves ==
    ret.op = "sliceForLeaf" =>
        \A l \in LeafIds \ {ret.args[1]} :
            Range(sliceForLeaf(Buf, l, ret.args[2])) \cap Range(ret.result)
                = {}

\* The directory write a call r made, if any: upsert, markDeleted, or an
\* admitted append; the id it wrote, whether it wrote a tombstone, and its
\* epoch.
IsDirWrite(r) ==
    \/ r.op \in {"upsert", "markDeleted"}
    \/ r.op = "append" /\ r.path = "admitted"

WrittenId(r) == IF r.op = "append" THEN r.args[2].entry.id ELSE r.args[1]

WrittenTombstone(r) ==
    CASE r.op = "upsert" -> r.args[3].tombstone
      [] r.op = "markDeleted" -> TRUE
      [] r.op = "append" -> r.args[2].op = "DELETE"

WrittenEpoch(r) ==
    CASE r.op = "upsert" -> r.args[3].epoch
      [] r.op = "markDeleted" -> r.args[4]
      [] r.op = "append" -> r.args[2].epoch

\* The directory holds a location stored under id whose tombstone flag is
\* false.
HoldsLive(d, id) ==
    \E h \in DOMAIN d.id_map_ :
        d.id_map_[h].id = id /\ ~d.id_map_[h].location.tombstone

\* What exists answers for each id.
Exists == [id \in AllIds |-> exists(Dir, id)]

\* The call before was a delete of an id and this call writes the same id
\* again, not as a tombstone, with a greater epoch.
Reinsert ==
    /\ IsDirWrite(ret) /\ WrittenTombstone(ret)
    /\ IsDirWrite(ret') /\ ~WrittenTombstone(ret')
    /\ WrittenId(ret') = WrittenId(ret)
    /\ WrittenEpoch(ret') > WrittenEpoch(ret)

(* C17 as stated: exists(id) is true iff the directory holds a location for
   id that is not tombstoned; after markDeleted(id) or an append of a DELETE
   of id, exists(id) is false; after a following upsert or append of id that
   is not a DELETE and has a greater epoch, exists(id) is true again. *)
C17_ExistsFollowsLatestWrite ==
    [][/\ \A id \in DirIds : exists(Dir, id)' <=> HoldsLive(Dir, id)'
       /\ (IsDirWrite(ret') /\ WrittenTombstone(ret'))
              => ~Exists'[WrittenId(ret')]
       /\ Reinsert => Exists'[WrittenId(ret')]
      ]_vars

(* C17 amended: as stated, for an id whose id_hash is not held by an entry
   stored under a different id: a write of an id whose hash collides with
   a stored entry of another id does not make exists(id) true. *)
C17_ExistsFollowsLatestWriteOwnHash ==
    [][/\ \A id \in DirIds : exists(Dir, id)' <=> HoldsLive(Dir, id)'
       /\ (IsDirWrite(ret') /\ WrittenTombstone(ret'))
              => ~Exists'[WrittenId(ret')]
       /\ (/\ Reinsert
           /\ \A h \in DOMAIN id_map_ :
                 h = hash_id(WrittenId(ret'))
                     => id_map_[h].id = WrittenId(ret'))
              => Exists'[WrittenId(ret')]
      ]_vars

\* The only two writes so far were an append of a DELETE of an id and then
\* an append of an UPSERT of the same id, and the id exists.
C17_Witness ==
    /\ ret.op = "append"
    /\ ret.path = "admitted"
    /\ ret.args[2].op = "UPSERT"
    /\ global_version_ = 2
    /\ \E m \in Buffered : /\ m.op = "DELETE"
                           /\ m.entry.id = ret.args[2].entry.id
                           /\ m.epoch < ret.args[2].epoch
    /\ exists(Dir, ret.args[2].entry.id)

\* What getLatest answers for each id.
Latest == [id \in AllIds |-> getLatest(Dir, id)]

(* C18: when moveToSegment moves an id whose location is BUFFER to segment
   S, getLatest(id) afterwards is SEGMENT with segment_id S; when an upsert
   of an id whose location is SEGMENT is then appended with a greater epoch,
   getLatest(id) afterwards is BUFFER with that epoch. *)
C18_FlushThenRewrite ==
    [][/\ ret'.op = "moveToSegment" =>
             \A k \in DOMAIN ret'.args[1] :
                 LET id == ret'.args[1][k]
                 IN  (Latest[id] # << >> /\ Latest[id][1].type = "BUFFER")
                         => /\ Latest'[id] # << >>
                            /\ Latest'[id][1].type = "SEGMENT"
                            /\ Latest'[id][1].segment_id = ret'.args[2]
       /\ (ret'.op = "append" /\ ret'.path = "admitted"
              /\ ret'.args[2].op # "DELETE") =>
             LET id == ret'.args[2].entry.id
             IN  (/\ Latest[id] # << >>
                  /\ Latest[id][1].type = "SEGMENT"
                  /\ ret'.args[2].epoch > Latest[id][1].epoch)
                     => /\ Latest'[id] # << >>
                        /\ Latest'[id][1].type = "BUFFER"
                        /\ Latest'[id][1].epoch = ret'.args[2].epoch
      ]_vars

\* The flush has moved an id to its segment and, before the eviction, an
\* upsert of the id was appended: the directory says BUFFER, with the
\* upsert's epoch.
C18_Witness ==
    /\ flush.stage = "committed"
    /\ ret.op = "append"
    /\ ret.path = "admitted"
    /\ ret.args[2].op = "UPSERT"
    /\ \E k \in DOMAIN flush.batch :
          /\ flush.batch[k].entry.id = ret.args[2].entry.id
          /\ flush.batch[k].epoch < ret.args[2].epoch
    /\ Latest[ret.args[2].entry.id] # << >>
    /\ Latest[ret.args[2].entry.id][1].type = "BUFFER"
    /\ Latest[ret.args[2].entry.id][1].epoch = ret.args[2].epoch

\* No thread is inside append.
AllReturned == \A t \in Threads : pc[t] = "idle"

(* C19: after n admitted appends and no evict or clear, getStats() reports
   message_count = n, also when appends share an id_hash, and the directory
   reports as total_entries the number of distinct id_hash values appended. *)
C19_CountsAfterAppends ==
    (AllReturned /\ NothingRemoved) =>
        /\ getStats(Buf).message_count = next_addr - 1
        /\ lbiGetStats(Dir).total_entries
              = Cardinality({m.entry.id_hash : m \in Buffered})

\* Two appends were admitted, both with the same id_hash.
C19_Witness ==
    /\ AllReturned
    /\ NothingRemoved
    /\ getStats(Buf).message_count = 2
    /\ lbiGetStats(Dir).total_entries = 1
    /\ \E m \in Buffered, o \in Buffered :
          m.entry.id_hash = o.entry.id_hash /\ m.epoch # o.epoch

(* C20: the directory holds exactly one entry, hence one location, per
   id_hash (the entry stored under a hash carries that hash), and an upsert
   whose id_hash is held by an entry of a different id leaves that entry's
   id as it was. *)
C20_OneEntryPerHashIdKept ==
    [][/\ \A h \in DOMAIN id_map_' :
             /\ id_map_'[h].id_hash = h
             /\ hash_id(id_map_'[h].id) = h
       /\ \A id \in DOMAIN id_to_hash_' :
             /\ id_to_hash_'[id] \in DOMAIN id_map_'
             /\ id_map_'[id_to_hash_'[id]].id = id
       /\ (/\ IsDirWrite(ret')
           /\ hash_id(WrittenId(ret')) \in DOMAIN id_map_
           /\ id_map_[hash_id(WrittenId(ret'))].id # WrittenId(ret'))
              => /\ hash_id(WrittenId(ret')) \in DOMAIN id_map_'
                 /\ id_map_'[hash_id(WrittenId(ret'))].id
                       = id_map_[hash_id(WrittenId(ret'))].id
      ]_vars

\* An upsert of "dd" met the entry of "a" under the same hash: the entry has
\* the upsert's location and still the id "a".
C20_Witness ==
    /\ ret.op = "upsert"
    /\ ret.args[1] = "dd"
    /\ ret.args[2] \in DOMAIN id_map_
    /\ id_map_[ret.args[2]].id = "a"
    /\ id_map_[ret.args[2]].location = ret.args[3]
    /\ id_map_[ret.args[2]].version = global_version_ - 1

\* The address of the message most recently appended for hash h among the
\* queue entries of a shard (the FIFO is in order of appending).
LastAddr(messages, h) ==
    messages[Max({k \in DOMAIN messages : messages[k].msg.entry.id_hash = h})]
        .addr

(* C22: for every id_hash that has a message in a shard's FIFO, the shard's
   latest_map has a pointer for it, and the pointer targets the message
   appended last for that id_hash; an evict therefore never takes the
   pointer of a message appended after the slice. *)
C22_DedupMapCurrent ==
    \A i \in ShardIdx :
        \A k \in DOMAIN shards_[i].messages :
            LET h == shards_[i].messages[k].msg.entry.id_hash
            IN  /\ h \in DOMAIN shards_[i].latest_map
                /\ shards_[i].latest_map[h] = LastAddr(shards_[i].messages, h)

\* m was superseded by a message of the batch: same id_hash, lower epoch.
SupersededBy(m, batch) ==
    \E k \in DOMAIN batch : /\ batch[k].entry.id_hash = m.entry.id_hash
                            /\ m.epoch < batch[k].epoch

(* C23: evict(flushed) removes no message that is neither in flushed nor
   superseded by a message of flushed: every such message that was queued
   before the call is queued after it. *)
C23_EvictRemovesOnlyFlushed ==
    [][(flush.stage = "committed" /\ ret'.op = "evict")
       => \A m \in Buffered :
            (m \notin Range(ret'.args[1]) /\ ~SupersededBy(m, ret'.args[1]))
                => m \in Buffered'
      ]_vars

(* C24: when the buffer holds n <= max_batch messages with pairwise distinct
   id_hash, sliceForLeaf returns exactly those n messages, each once. *)
C24_SliceReturnsAllOnce ==
    (/\ ret.op = "sliceForLeaf"
     /\ QueueEntries <= ret.args[2]
     /\ Cardinality({m.entry.id_hash : m \in Buffered}) = QueueEntries)
        => /\ Len(ret.result) = QueueEntries
           /\ Range(ret.result) = Buffered

(* C25: every pointer a shard's latest_map stores targets a message that
   the shard's FIFO still owns. *)
C25_NoDanglingDedupPointer ==
    \A i \in ShardIdx :
        \A h \in DOMAIN shards_[i].latest_map :
            \E k \in DOMAIN shards_[i].messages :
                shards_[i].messages[k].addr = shards_[i].latest_map[h]

\* The entries of the primary map that satisfy P.
EntriesWhere(P(_)) == {h \in DOMAIN id_map_ : P(id_map_[h])}
IsBufferEntry(e) == e.location.type = "BUFFER"
IsSegmentEntry(e) == e.location.type = "SEGMENT"
IsTombstoneEntry(e) == e.location.tombstone

(* C26: after any sequence of upsert, markDeleted, moveToSegment,
   removeSegmentEntries and clear the three counters getStats reports are
   exact (the number of BUFFER entries, of SEGMENT entries, of entries with
   the tombstone flag) and none of them has wrapped below zero. *)
C26_DirStatsExact ==
    /\ lbiGetStats(Dir).buffer_entries = Cardinality(EntriesWhere(IsBufferEntry))
    /\ lbiGetStats(Dir).segment_entries
          = Cardinality(EntriesWhere(IsSegmentEntry))
    /\ lbiGetStats(Dir).tombstone_entries
          = Cardinality(EntriesWhere(IsTombstoneEntry))
    /\ buffer_count_ >= 0
    /\ segment_count_ >= 0
    /\ tombstone_count_ >= 0

(* C27: id_to_hash_ maps id to h exactly when id_map_[h] exists and stores
   the id; hence both maps have the same size and getLatest(id) returns a
   location exactly for the ids stored in entries. *)
C27_IndexConsistent ==
    /\ \A id \in AllIds, h \in Hashes :
          (id \in DOMAIN id_to_hash_ /\ id_to_hash_[id] = h)
             <=> (h \in DOMAIN id_map_ /\ id_map_[h].id = id)
    /\ Cardinality(DOMAIN id_to_hash_) = Cardinality(DOMAIN id_map_)
    /\ \A id \in AllIds :
          getLatest(Dir, id) # << >>
             <=> \E h \in DOMAIN id_map_ : id_map_[h].id = id

\* removeSegmentEntries has returned after removing the second of two
\* entries: the entry of "b" (the first written, version 0) is left and so
\* is its index entry, and nothing else.
C27_Witness ==
    /\ ret.op = "removeSegmentEntries"
    /\ global_version_ = 2
    /\ DOMAIN id_map_ = {hash_id("b")}
    /\ id_map_[hash_id("b")].version = 0
    /\ DOMAIN id_to_hash_ = {"b"}

(* ---- SpecOps: threads calling the buffer's methods, lock by lock ------ *)

\* Ids the writers of SpecOps use (one per shard) and the arguments the
\* other calls are made with.
OpsIds == {"a", "b"}
OpsBatches == {MaxScan}
OpsFilter == <<"", "", << >>, MaxScan>>
\* Every thread writes; between its writes one thread runs the flush
\* (sliceForLeaf, then evict) and the other calls clear and scanForQuery.
FlushThreads == {1}
ServiceThreads == {2}

\* space_mutex_ is held by a thread inside waitForSpace (line 278); the map
\* lock of the directory by a thread inside the upsert that append calls
\* (line 164, latest-by-id.h line 112).
HoldsSpace(t) == pc[t] = "waiting"
HoldsMap(t) == pc[t] = "dir"
SpaceFree == \A t \in Threads : ~HoldsSpace(t)
MapFree == \A t \in Threads : ~HoldsMap(t)

\* The lock thread t acquires with its next statement.
WantsShard(t) ==
    IF pc[t] = "lock" THEN {ShardOf(t)}
    ELSE IF pc[t] \in {"cl_lock", "sl_lock", "sc_lock"} THEN {local[t].shard}
    ELSE IF pc[t] = "ev_lock" /\ local[t].batch # << >> THEN {EvictShardOf(t)}
    ELSE {}
WantsSpace(t) == pc[t] = "wait"
WantsMap(t) == pc[t] = "upsert"

OpsRest == UNCHANGED <<next_epoch, garbage>>

\* waitForSpace, line 278: space_mutex_ is taken.
WaitEnter(t) ==
    /\ pc[t] = "wait"
    /\ SpaceFree
    /\ pc' = [pc EXCEPT ![t] = "waiting"]
    /\ UNCHANGED <<dirVars, bufVars, flush, local, ret>>
    /\ OpsRest

\* waitForSpace, lines 279-282: wait_for returns its predicate's value and
\* space_mutex_ is released; false makes append give up (line 127).
WaitLeave(t) ==
    /\ pc[t] = "waiting"
    /\ IF waitForSpace(total_bytes_)
       THEN /\ pc' = [pc EXCEPT ![t] = "check"]
            /\ UNCHANGED <<local, ret>>
       ELSE /\ pc' = [pc EXCEPT ![t] = "idle"]
            /\ ret' = CallVia("append", <<MsgOf(t).entry.id_hash, MsgOf(t)>>,
                              appendValue("returned"), "returned")
            /\ local' = [local EXCEPT ![t] = NoLocal]
    /\ UNCHANGED <<dirVars, bufVars, flush>>
    /\ OpsRest

\* append, line 164 and latest-by-id.h line 112: upsert takes the map lock
\* while append holds the shard mutex.
MapLock(t) ==
    /\ pc[t] = "upsert"
    /\ MapFree
    /\ pc' = [pc EXCEPT ![t] = "dir"]
    /\ UNCHANGED <<dirVars, bufVars, flush, local, ret>>
    /\ OpsRest

\* latest-by-id.h lines 114-157 and append's end: the directory is updated,
\* the map lock and the shard mutex are released, append returns.
UpsertBody(t) ==
    /\ pc[t] = "dir"
    /\ SetDir(upsert(Dir, MsgOf(t).entry.id, MsgOf(t).entry.id_hash,
                     appendLocation(MsgOf(t), garbage)))
    /\ pc' = [pc EXCEPT ![t] = "idle"]
    /\ ret' = CallVia("append", <<MsgOf(t).entry.id_hash, MsgOf(t)>>,
                      appendValue("admitted"), "admitted")
    /\ local' = [local EXCEPT ![t] = NoLocal]
    /\ UNCHANGED <<bufVars, flush>>
    /\ OpsRest

\* clear is called: the loop starts at the first shard (line 285).
ClBegin(t) ==
    /\ pc[t] = "idle"
    /\ local' = [local EXCEPT ![t] = [shard |-> 0]]
    /\ pc' = [pc EXCEPT ![t] = "cl_lock"]
    /\ UNCHANGED <<dirVars, bufVars, flush, ret>>
    /\ OpsRest

\* clear, line 286: the shard's mutex is taken.
ClLock(t) ==
    /\ pc[t] = "cl_lock"
    /\ ShardFree(local[t].shard)
    /\ pc' = [pc EXCEPT ![t] = "cl_body"]
    /\ UNCHANGED <<dirVars, bufVars, flush, local, ret>>
    /\ OpsRest

\* clear, lines 287-291: the shard is emptied and its mutex released.
ClBody(t) ==
    /\ pc[t] = "cl_body"
    /\ shards_' = [shards_ EXCEPT ![local[t].shard] = EmptyShard]
    /\ IF local[t].shard + 1 < shard_count
       THEN /\ local' = [local EXCEPT ![t].shard = @ + 1]
            /\ pc' = [pc EXCEPT ![t] = "cl_lock"]
       ELSE /\ local' = local
            /\ pc' = [pc EXCEPT ![t] = "cl_totals"]
    /\ UNCHANGED <<dirVars, total_bytes_, total_messages_, dedupe_count_,
                   next_addr, flush, ret>>
    /\ OpsRest

\* clear, lines 293-298: the buffer-wide counters are stored as zero, with
\* no lock held, and clear returns.
ClTotals(t) ==
    /\ pc[t] = "cl_totals"
    /\ total_bytes_' = 0
    /\ total_messages_' = 0
    /\ dedupe_count_' = 0
    /\ pc' = [pc EXCEPT ![t] = "idle"]
    /\ local' = [local EXCEPT ![t] = NoLocal]
    /\ ret' = Call("clear", << >>, << >>)
    /\ UNCHANGED <<dirVars, shards_, next_addr, flush>>
    /\ OpsRest

\* The flush calls sliceForLeaf (lines 168-174); one flush runs at a time.
SlBegin(t, max_batch) ==
    /\ pc[t] = "idle"
    /\ flush.stage = "idle"
    /\ flush' = [stage |-> "slicing", batch |-> << >>]
    /\ local' = [local EXCEPT ![t] = [shard |-> 0, max_batch |-> max_batch,
                                      result |-> << >>]]
    /\ pc' = [pc EXCEPT ![t] = "sl_lock"]
    /\ UNCHANGED <<dirVars, bufVars, ret>>
    /\ OpsRest

\* sliceForLeaf, line 176
SlLock(t) ==
    /\ pc[t] = "sl_lock"
    /\ ShardFree(local[t].shard)
    /\ pc' = [pc EXCEPT ![t] = "sl_body"]
    /\ UNCHANGED <<dirVars, bufVars, flush, local, ret>>
    /\ OpsRest

\* sliceForLeaf, lines 178-185 and the loop condition of line 174: the
\* shard's part is taken and its mutex released; the call returns after
\* the last shard or with a full batch, and an empty batch ends the flush.
SlBody(t) ==
    /\ pc[t] = "sl_body"
    /\ LET result == sliceShard(shards_[local[t].shard], local[t].result,
                                local[t].max_batch)
       IN  IF /\ local[t].shard + 1 < shard_count
              /\ Len(result) < local[t].max_batch
           THEN /\ local' = [local EXCEPT ![t].shard = @ + 1,
                                          ![t].result = result]
                /\ pc' = [pc EXCEPT ![t] = "sl_lock"]
                /\ UNCHANGED <<flush, ret>>
           ELSE /\ local' = [local EXCEPT ![t] = NoLocal]
                /\ pc' = [pc EXCEPT ![t] = "idle"]
                /\ flush' = [stage |-> IF result = << >> THEN "idle"
                                        ELSE "sliced",
                             batch |-> result]
                /\ ret' = Call("sliceForLeaf", <<0, local[t].max_batch>>,
                               result)
    /\ UNCHANGED <<dirVars, bufVars>>
    /\ OpsRest

\* The flush commits the batch to the directory while nobody holds the map
\* lock.
OpsMove(segment_id) == MapFree /\ MoveToSegment(segment_id)

\* The flush calls evict with its batch (lines 190-193).
EvBegin(t) ==
    /\ pc[t] = "idle"
    /\ flush.stage = "committed"
    /\ flush' = [flush EXCEPT !.stage = "evicting"]
    /\ local' = [local EXCEPT ![t] = [batch |-> flush.batch]]
    /\ pc' = [pc EXCEPT ![t] = "ev_lock"]
    /\ UNCHANGED <<dirVars, bufVars, ret>>
    /\ OpsRest

\* evict, line 197: the mutex of the next flushed message's shard.
EvLock(t) ==
    /\ pc[t] = "ev_lock"
    /\ local[t].batch # << >>
    /\ ShardFree(EvictShardOf(t))
    /\ pc' = [pc EXCEPT ![t] = "ev_body"]
    /\ UNCHANGED <<dirVars, bufVars, flush, local, ret>>
    /\ OpsRest

\* evict, lines 199-214: the front of the shard is popped, the mutex
\* released.
EvBody(t) ==
    /\ pc[t] = "ev_body"
    /\ SetBuf(evictOne(Buf, Head(local[t].batch)))
    /\ local' = [local EXCEPT ![t].batch = Tail(@)]
    /\ pc' = [pc EXCEPT ![t] = "ev_lock"]
    /\ UNCHANGED <<dirVars, flush, ret>>
    /\ OpsRest

\* evict, lines 216-218: the loop is over and evict returns.
EvEnd(t) ==
    /\ pc[t] = "ev_lock"
    /\ local[t].batch = << >>
    /\ pc' = [pc EXCEPT ![t] = "idle"]
    /\ local' = [local EXCEPT ![t] = NoLocal]
    /\ ret' = Call("evict", <<flush.batch>>, << >>)
    /\ flush' = [stage |-> "idle", batch |-> << >>]
    /\ UNCHANGED <<dirVars, bufVars>>
    /\ OpsRest

\* scanForQuery is called (lines 220-231).
ScBegin(t, tenant, ns, tags, max_scan) ==
    /\ pc[t] = "idle"
    /\ local' = [local EXCEPT ![t] =
                    [shard |-> 0, args |-> <<tenant, ns, tags, max_scan>>,
                     st |-> [scanned |-> 0, results |-> << >>]]]
    /\ pc' = [pc EXCEPT ![t] = "sc_lock"]
    /\ UNCHANGED <<dirVars, bufVars, flush, ret>>
    /\ OpsRest

\* scanForQuery, line 232
ScLock(t) ==
    /\ pc[t] = "sc_lock"
    /\ ShardFree(local[t].shard)
    /\ pc' = [pc EXCEPT ![t] = "sc_body"]
    /\ UNCHANGED <<dirVars, bufVars, flush, local, ret>>
    /\ OpsRest

\* scanForQuery, lines 234-262: the shard's messages are visited and its
\* mutex released; after the last shard the call returns.
ScBody(t) ==
    /\ pc[t] = "sc_body"
    /\ LET a == local[t].args
           st == scanShard(shards_[local[t].shard].messages, 1, local[t].st,
                           a[1], a[2], a[3], a[4])
       IN  IF local[t].shard + 1 < shard_count
           THEN /\ local' = [local EXCEPT ![t].shard = @ + 1, ![t].st = st]
                /\ pc' = [pc EXCEPT ![t] = "sc_lock"]
                /\ ret' = ret
           ELSE /\ local' = [local EXCEPT ![t] = NoLocal]
                /\ pc' = [pc EXCEPT ![t] = "idle"]
                /\ ret' = Call("scanForQuery", a, st.results)
    /\ UNCHANGED <<dirVars, bufVars, flush>>
    /\ OpsRest

NextOps ==
    \/ \E t \in Threads, id \in OpsIds : Begin(t, id, "UPSERT")
    \/ \E t \in Threads : Check(t)
    \/ \E t \in Threads : WaitEnter(t)
    \/ \E t \in Threads : WaitLeave(t)
    \/ \E t \in Threads : Lock(t)
    \/ \E t \in Threads : Totals(t)
    \/ \E t \in Threads : MapLock(t)
    \/ \E t \in Threads : UpsertBody(t)
    \/ \E t \in ServiceThreads : ClBegin(t)
    \/ \E t \in Threads : ClLock(t)
    \/ \E t \in Threads : ClBody(t)
    \/ \E t \in Threads : ClTotals(t)
    \/ \E t \in FlushThreads, n \in OpsBatches : SlBegin(t, n)
    \/ \E t \in Threads : SlLock(t)
    \/ \E t \in Threads : SlBody(t)
    \/ \E s \in FlushSegs : OpsMove(s)
    \/ \E t \in FlushThreads : EvBegin(t)
    \/ \E t \in Threads : EvLock(t)
    \/ \E t \in Threads : EvBody(t)
    \/ \E t \in Threads : EvEnd(t)
    \/ \E t \in ServiceThreads :
          ScBegin(t, OpsFilter[1], OpsFilter[2], OpsFilter[3], OpsFilter[4])
    \/ \E t \in Threads : ScLock(t)
    \/ \E t \in Threads : ScBody(t)

SpecOps == Init /\ [][NextOps]_vars

\* No call is in progress.
Quiescent == \A t \in Threads : pc[t] = "idle"

\* Sums over the shards: the per-shard counters, and what the FIFOs hold.
ShardBytesSum == LET RECURSIVE Sum(_)
                     Sum(i) == IF i >= shard_count THEN 0
                               ELSE shards_[i].bytes + Sum(i + 1)
                 IN  Sum(0)
ShardCountSum == LET RECURSIVE Sum(_)
                     Sum(i) == IF i >= shard_count THEN 0
                               ELSE shards_[i].count + Sum(i + 1)
                 IN  Sum(0)
RECURSIVE SizeOfQueue(_)
SizeOfQueue(messages) ==
    IF messages = << >> THEN 0
    ELSE estimateSize(Head(messages).msg) + SizeOfQueue(Tail(messages))
QueuedBytes == LET RECURSIVE Sum(_)
                   Sum(i) == IF i >= shard_count THEN 0
                             ELSE SizeOfQueue(shards_[i].messages) + Sum(i + 1)
               IN  Sum(0)

(* C21: at every quiescent state reached by interleaved append, evict and
   clear, total_bytes equals the sum of the shards' bytes and the summed
   estimated size of the queued messages, total_messages equals the sum of
   the shards' counts and the total queue length; and no counter is ever
   below zero. *)
C21_AccountingExactWhenQuiescent ==
    /\ Quiescent =>
          /\ total_bytes_ = ShardBytesSum
          /\ total_bytes_ = QueuedBytes
          /\ total_messages_ = ShardCountSum
          /\ total_messages_ = QueueEntries
    /\ total_bytes_ >= 0
    /\ total_messages_ >= 0
    /\ \A i \in ShardIdx : shards_[i].bytes >= 0 /\ shards_[i].count >= 0

\* Thread t waits for a lock that thread u holds.
WaitsFor(t, u) ==
    \/ WantsShard(t) \cap HeldShards(u) # {}
    \/ WantsMap(t) /\ HoldsMap(u)
    \/ WantsSpace(t) /\ HoldsSpace(u)

\* The threads that t waits for, directly or through a chain of waits of
\* at most n links.
RECURSIVE WaitChain(_, _)
WaitChain(t, n) ==
    IF n = 0 THEN {}
    ELSE LET S == WaitChain(t, n - 1)
         IN  S \cup {u \in Threads : WaitsFor(t, u)}
               \cup {u \in Threads : \E v \in S : WaitsFor(v, u)}

(* C30: no thread holds more than one shard mutex; a thread that takes or
   holds the directory's map lock holds at most one shard mutex, and no
   thread takes a shard mutex while holding the map lock; no thread takes a
   shard mutex while holding space_mutex_; and no thread waits, through a
   chain of lock waits, for itself. *)
C30_LockDiscipline ==
    \A t \in Threads :
        /\ Cardinality(HeldShards(t)) <= 1
        /\ (WantsMap(t) \/ HoldsMap(t)) => Cardinality(HeldShards(t)) <= 1
        /\ HoldsMap(t) => WantsShard(t) = {}
        /\ HoldsSpace(t) => WantsShard(t) = {}
        /\ t \notin WaitChain(t, Cardinality(Threads))

\* A writer holds its shard's mutex and the map lock while another thread's
\* clear has reached the same shard and waits for its mutex.
C30_Witness ==
    \E t \in Threads, u \in Threads :
        /\ HoldsMap(t)
        /\ HeldShards(t) = {1}
        /\ pc[u] = "cl_lock"
        /\ WantsShard(u) = {1}
        /\ WaitsFor(u, t)

(* ---- SpecRebuild: LatestByIdMap::rebuild, lock by lock ---------------- *)

\* The one thread that calls rebuild, and the segment lists it passes.
RebuildThreads == {1}
RebuildSegments == {<< >>, <<"s1">>, <<"s1", "s2">>}

\* rebuild holds its unique_lock on map_mutex_ from line 271 to its end.
RbHoldsMap(t) == pc[t] \in {"rb_clear", "rb_blocked"}
RbMapFree == \A t \in Threads : ~RbHoldsMap(t)

\* clear (line 261) locks map_mutex_ again on the thread that owns it, which
\* std::shared_mutex leaves undefined: the thread blocks on its own lock,
\* or lock() reports the deadlock by throwing std::system_error.
RelockOutcomes == {"blocks", "throws"}

RbRest == UNCHANGED <<bufVars, next_epoch, flush, garbage>>

\* The directory is filled while nobody holds the map lock.
RbUpsert(id, location) ==
    /\ \A t \in Threads : pc[t] = "idle"
    /\ DirUpsert(id, location)

\* rebuild(segments) is called (line 270).
RbBegin(t, segments) ==
    /\ pc[t] = "idle"
    /\ local' = [local EXCEPT ![t] = [segments |-> segments]]
    /\ pc' = [pc EXCEPT ![t] = "rb_lock"]
    /\ UNCHANGED <<dirVars, ret>>
    /\ RbRest

\* rebuild, line 271: the unique_lock on map_mutex_ is taken.
RbLock(t) ==
    /\ pc[t] = "rb_lock"
    /\ RbMapFree
    /\ pc' = [pc EXCEPT ![t] = "rb_clear"]
    /\ UNCHANGED <<dirVars, local, ret>>
    /\ RbRest

\* rebuild, line 274, and clear, line 261: clear() asks for the lock its
\* caller holds.  Blocked, the thread stays inside the call for good, as
\* only its own return would release the lock (clear's body and the loop
\* of lines 263-281 are never reached); thrown at, it leaves rebuild by the
\* exception, with the directory as it was.
RbRelock(t) ==
    /\ pc[t] = "rb_clear"
    /\ \E o \in RelockOutcomes :
          IF o = "blocks"
          THEN /\ pc' = [pc EXCEPT ![t] = "rb_blocked"]
               /\ UNCHANGED <<local, ret>>
          ELSE /\ pc' = [pc EXCEPT ![t] = "idle"]
               /\ local' = [local EXCEPT ![t] = NoLocal]
               /\ ret' = CallVia("rebuild", <<local[t].segments>>, << >>,
                                 "threw")
    /\ UNCHANGED dirVars
    /\ RbRest

\* The statements of thread t's rebuild.
RbStep(t) == RbLock(t) \/ RbRelock(t)

NextRebuild ==
    \/ \E id \in DirIds, l \in DirLocations : RbUpsert(id, l)
    \/ \E t \in RebuildThreads, g \in RebuildSegments : RbBegin(t, g)
    \/ \E t \in RebuildThreads : RbLock(t)
    \/ \E t \in RebuildThreads : RbRelock(t)

SpecRebuild ==
    Init /\ [][NextRebuild]_vars /\ \A t \in RebuildThreads : WF_vars(RbStep(t))

\* Thread t is inside rebuild.
InRebuild(t) == pc[t] \in {"rb_lock", "rb_clear", "rb_blocked"}

(* C28: rebuild(segments), called by a single thread on an idle directory,
   terminates: a thread inside rebuild always has a next statement it can
   execute (it never waits for a lock nobody will release), and when the
   call is over it has returned normally and the directory is empty. *)
C28_RebuildTerminates ==
    /\ \A t \in RebuildThreads : InRebuild(t) => ENABLED RbStep(t)
    /\ ret.op = "rebuild" =>
          /\ ret.path = "done"
          /\ id_map_ = EmptyMap
          /\ id_to_hash_ = EmptyMap

(* ---- SpecLock: directory readers and writers, lock by lock ------------ *)

\* The calls the threads of SpecLock make.
LkReads == {"getLatest", "exists"}
LkIds == {"a", "b"}
LkWrites ==
    {<<"upsert", id, VectorLocation("BUFFER", "", 0, Clock(1), 1, FALSE)>> :
        id \in LkIds}
    \cup {<<"moveToSegment", <<"a">>, "s1", 1>>}
    \cup {<<"removeSegmentEntries", "s1">>}

\* The directory after a writer's call.
lkApply(d, call) ==
    IF call[1] = "upsert" THEN upsert(d, call[2], hash_id(call[2]), call[3])
    ELSE IF call[1] = "moveToSegment"
    THEN moveToSegment(d, call[2], call[3], call[4])
    ELSE removeSegmentEntries(d, call[2])

\* std::shared_lock on map_mutex_: held from getLatest's line 171 to its
\* return, and a second time inside getLatestByHash (line 182).
HoldsShared(t) == pc[t] \in {"gl_find", "glh_lock", "glh_find"}

\* A request for the shared lock by thread t is granted when no writer holds
\* the lock (writers hold it within one step only) and no waiting writer
\* shuts new readers out.  Whether a waiting writer does is up to the
\* implementation of std::shared_mutex; it is drawn when the writer starts
\* to wait.  A thread that already holds the shared lock asks like any
\* other: the mutex is not recursive.
SharedGranted(t) ==
    \A w \in Threads \ {t} : pc[w] = "wr_lock" => ~local[w].blocksReaders

LkRest == UNCHANGED <<bufVars, next_epoch, flush, garbage>>

\* upsert, moveToSegment or removeSegmentEntries is called and asks for the
\* unique_lock (lines 112, 204, 223).
LkWrBegin(t, call, blocksReaders) ==
    /\ pc[t] = "idle"
    /\ global_version_ < MaxVersion
    /\ local' = [local EXCEPT ![t] = [call |-> call,
                                      blocksReaders |-> blocksReaders]]
    /\ pc' = [pc EXCEPT ![t] = "wr_lock"]
    /\ UNCHANGED <<dirVars, ret>>
    /\ LkRest

\* The writer gets the lock when no reader holds it, runs and returns.
LkWrBody(t) ==
    /\ pc[t] = "wr_lock"
    /\ \A r \in Threads : ~HoldsShared(r)
    /\ SetDir(lkApply(Dir, local[t].call))
    /\ ret' = Call(local[t].call[1], Tail(local[t].call), << >>)
    /\ pc' = [pc EXCEPT ![t] = "idle"]
    /\ local' = [local EXCEPT ![t] = NoLocal]
    /\ LkRest

\* getLatest(id) is called, by the client or by exists(id) (line 193).
LkRdBegin(t, call, id) ==
    /\ pc[t] = "idle"
    /\ local' = [local EXCEPT ![t] = [call |-> call, id |-> id]]
    /\ pc' = [pc EXCEPT ![t] = "gl_lock"]
    /\ UNCHANGED <<dirVars, ret>>
    /\ LkRest

\* What the reader's call returns for the location getLatest found.
lkResult(call, location) ==
    IF call = "exists" THEN location # << >> /\ ~location[1].tombstone
    ELSE location

\* getLatest, line 171
GlLock(t) ==
    /\ pc[t] = "gl_lock"
    /\ SharedGranted(t)
    /\ pc' = [pc EXCEPT ![t] = "gl_find"]
    /\ UNCHANGED <<dirVars, local, ret>>
    /\ LkRest

\* getLatest, lines 173-178: an id that is not indexed ends the call, any
\* other leads into getLatestByHash with the lock still held.
GlFind(t) ==
    /\ pc[t] = "gl_find"
    /\ IF local[t].id \notin DOMAIN id_to_hash_
       THEN /\ ret' = Call(local[t].call, <<local[t].id>>,
                           lkResult(local[t].call, << >>))
            /\ pc' = [pc EXCEPT ![t] = "idle"]
            /\ local' = [local EXCEPT ![t] = NoLocal]
       ELSE /\ pc' = [pc EXCEPT ![t] = "glh_lock"]
            /\ local' = [local EXCEPT ![t] =
                            [call |-> local[t].call, id |-> local[t].id,
                             hash |-> id_to_hash_[local[t].id]]]
            /\ ret' = ret
    /\ UNCHANGED dirVars
    /\ LkRest

\* getLatestByHash, line 182: the shared lock is requested a second time.
GlhLock(t) ==
    /\ pc[t] = "glh_lock"
    /\ SharedGranted(t)
    /\ pc' = [pc EXCEPT ![t] = "glh_find"]
    /\ UNCHANGED <<dirVars, local, ret>>
    /\ LkRest

\* getLatestByHash, lines 184-190, and the returns of getLatest and exists.
GlhFind(t) ==
    /\ pc[t] = "glh_find"
    /\ ret' = Call(local[t].call, <<local[t].id>>,
                   lkResult(local[t].call,
                            getLatestByHash(Dir, local[t].hash)))
    /\ pc' = [pc EXCEPT ![t] = "idle"]
    /\ local' = [local EXCEPT ![t] = NoLocal]
    /\ UNCHANGED dirVars
    /\ LkRest

\* The statements of thread t's call.
LkStep(t) == LkWrBody(t) \/ GlLock(t) \/ GlFind(t) \/ GlhLock(t) \/ GlhFind(t)

NextLock ==
    \/ \E t \in Threads, c \in LkWrites, b \in BOOLEAN : LkWrBegin(t, c, b)
    \/ \E t \in Threads : LkWrBody(t)
    \/ \E t \in Threads, c \in LkReads, id \in LkIds : LkRdBegin(t, c, id)
    \/ \E t \in Threads : GlLock(t)
    \/ \E t \in Threads : GlFind(t)
    \/ \E t \in Threads : GlhLock(t)
    \/ \E t \in Threads : GlhFind(t)

SpecLock == Init /\ [][NextLock]_vars /\ \A t \in Threads : WF_vars(LkStep(t))

(* C29: directory readers and writers never deadlock: whenever calls of
   getLatest, exists, upsert, moveToSegment or removeSegmentEntries are in
   progress, at least one of them can execute its next statement, also when
   a writer asks for the lock between getLatest's and getLatestByHash's
   shared-lock acquisitions and the lock shuts new readers out while a
   writer waits. *)
C29_ReadersWritersNeverDeadlock ==
    (\E t \in Threads : pc[t] # "idle")
        => \E t \in Threads : ENABLED LkStep(t)

====
